---- MODULE Spec2Model ----
(***************************************************************************)
(* Model of athenanews/news.py: the public function news() and the helpers *)
(* it calls (send_initial_query, poll_for_results, fetch_all_articles,     *)
(* _search_chunk).  One behaviour is one call of news(); every exchange    *)
(* with the remote API is one step, the remote's answer being the step's   *)
(* input.                                                                  *)
(*                                                                         *)
(* Times are integers counted in half days, so that a range can be a whole *)
(* number of days or not.  Scores are integers counted in units of         *)
(* 0.00001, so the literal 0.00055 is 55.                                  *)
(***************************************************************************)
EXTENDS Integers, Sequences, FiniteSets, TLC

\* ---------------------------------------------------------------- bounds
StartInstant == 1      \* the start date the caller passes (in half days)
MaxEnd == 31           \* the latest end date the caller passes (in half days)
MaxPending == 1        \* PENDING answers of the remote to one chunk
MaxArticles == 2       \* articles the remote hands out during one call
MaxPageLen == 1        \* articles on one page of the remote

\* ------------------------------------------------------ program constants
ARTICLES_PER_PAGE == 25        \* news.py:11
SplitDays == 7                 \* news.py:136  if delta_days > 7
ChunkDays == 7                 \* news.py:139  timedelta(days=7)
DefaultThreshold == 55         \* news.py:104  threshold = .00055
FilterThreshold == 55          \* news.py:153  > 0.00055
DefaultToggle == "All Articles"    \* news.py:55, news.py:103

\* ------------------------------------------------------------ Python values
\* A value that send_initial_query can return: a str, None, or the response
\* dict.  For a dict, val is its 'state' and msg its 'message' ("" when the
\* key is missing or empty: both are falsy at news.py:80).
Str(s) == [type |-> "str", val |-> s, msg |-> ""]
None == [type |-> "None", val |-> "", msg |-> ""]
Dict(st, m) == [type |-> "dict", val |-> st, msg |-> m]


\* The length of a day on the time axis
Day == 2

\* An ISO date string: the instant it denotes, and whether it ends in "Z".
DateStr(t, z) == [t |-> t, z |-> z]
NoDate == DateStr(0, FALSE)

\* datetime.fromisoformat(s.rstrip("Z"))
fromisoformat(s) == s.t
\* dt.isoformat() + "Z"
isoformatZ(dt) == DateStr(dt, TRUE)
\* (end_dt - start_dt).days : whole days, rounded towards minus infinity
days(d) == d \div Day
timedelta(d) == d * Day

\* An article dict: has says whether it has a 'score' key; uid is the
\* identity of the object (its rank among the objects received in the call).
Article(h, s, u) == [has |-> h, score |-> s, uid |-> u]
\* a.get("score", 0)
get_score(a) == IF a.has THEN a.score ELSE 0

\* ------------------------------------------------------ the remote's answers
ScoreValues == {FilterThreshold, FilterThreshold + 1, FilterThreshold + 2}
ArticleBodies == {[has |-> FALSE, score |-> 0]}
                   \cup {[has |-> TRUE, score |-> s] : s \in ScoreValues}
Handles == <<"q1", "q2", "q3", "q4">>
NoCount == -99         \* totalArticles missing from the status payload
TotalValues == {NoCount, -1, 0, 1, ARTICLES_PER_PAGE, ARTICLES_PER_PAGE + 1}

\* A response of the remote: the HTTP outcome and, of the JSON body, the
\* keys 'state', 'query_id' (None when missing), 'message' ("" when missing
\* or empty) and 'totalArticles' (NoCount when missing).  The 'articles' of
\* a page response are given separately.
Resp(http, st, qid, m, tot) ==
    [http |-> http, state |-> st, query_id |-> qid, msg |-> m, total |-> tot]
NoResp == Resp("none", "", None, "", NoCount)
HTTPFailure == Resp("error", "", None, "", NoCount)
PageOK == Resp("ok", "", None, "", NoCount)

\* Exceptions: the class, the message, and the payload quoted in the message
Error(t, m, d) == [type |-> t, msg |-> m, payload |-> d]
NoError == Error("none", "", NoResp)
HTTPError == Error("HTTPError", "", NoResp)                \* raise_for_status
AttributeError == Error("AttributeError", "", NoResp)      \* None.get
Exception(m) == Error("Exception", m, NoResp)
FailedToRetrieve == "Failed to retrieve query ID."
DidNotComplete == "Query did not complete successfully"
RuntimeError(d) == Error("RuntimeError", DidNotComplete, d)

\* the answers to the n-th submission
SubmitResponses(n) ==
    { HTTPFailure,
      Resp("ok", "SUCCESS", Str(Handles[n]), "", NoCount),
      Resp("ok", "SUCCESS", Str(""), "", NoCount),
      Resp("ok", "SUCCESS", None, "", NoCount),
      Resp("ok", "FAILED", None, "bad query", NoCount),
      Resp("ok", "FAILED", None, "", NoCount) }

\* the answers to a status fetch
StatusResponses ==
    { HTTPFailure,
      Resp("ok", "PENDING", None, "", NoCount),
      Resp("ok", "FAILED", None, "", NoCount) }
      \cup { Resp("ok", "SUCCESS", None, "", t) : t \in TotalValues }

Min(a, b) == IF a < b THEN a ELSE b
SeqsUpTo(S, n) == UNION { [1..k -> S] : k \in 0..n }

\* ------------------------------------------------------------------- state
VARIABLES
    start_date, end_date, toggle_state, threshold,   \* arguments of news()
    start_dt, end_dt, delta_days,                    \* news.py:130-133
    current_start, current_end, all_articles,        \* news.py:134-147
    chunk_start, chunk_end,          \* the date strings given to _search_chunk
    query_id, total_results,                         \* locals of _search_chunk
    page, articles,                  \* locals of fetch_all_articles
    data,                            \* the last response of the remote
    pc,                              \* where the call is
    result,                          \* the list news() returned, once done
    error,                           \* the exception news() raised, once failed
    submitted,                       \* history: the submissions sent, in order
    received,                        \* history: the articles received, in order
    log                              \* history: the requests and sleeps of the
                                     \* chunk in progress, in order

inputs == <<start_date, end_date, toggle_state, threshold>>
parsed == <<start_dt, end_dt, delta_days>>
loopv == <<current_start, current_end, all_articles, chunk_start, chunk_end>>
chunkv == <<query_id, total_results, page, articles>>
hist == <<submitted, received>>
vars == <<inputs, parsed, loopv, chunkv, data, pc, result, error, hist, log>>

Toggles == {DefaultToggle, "Other"}
Thresholds == {DefaultThreshold, DefaultThreshold + 1}
DateStrings == { DateStr(t, z) : t \in 0..MaxEnd, z \in BOOLEAN }

is_sleep(r) == r.kind = "sleep"
is_status(r) == r.kind = "status"
is_page(r) == r.kind = "page"
Req(kind, h, p, tg, s, e) ==
    [kind |-> kind, handle |-> h, page |-> p, toggle |-> tg, start |-> s, end |-> e]

Init ==
    /\ start_date \in { d \in DateStrings : d.t = StartInstant }
    /\ end_date \in { d \in DateStrings : d.z = start_date.z }
    /\ toggle_state \in Toggles
    /\ threshold \in Thresholds
    /\ start_dt = 0 /\ end_dt = 0 /\ delta_days = 0
    /\ current_start = 0 /\ current_end = 0
    /\ all_articles = <<>>
    /\ chunk_start = NoDate /\ chunk_end = NoDate
    /\ query_id = None /\ total_results = 0
    /\ page = 1 /\ articles = <<>>
    /\ data = NoResp
    /\ pc = "start"
    /\ result = <<>>
    /\ error = NoError
    /\ submitted = <<>>
    /\ received = <<>>
    /\ log = <<>>

\* ------------------------------------------------------------ pure helpers
\* How a function call ends: the value it returns, or the exception it raises
Returns(v) == [value |-> v, raised |-> NoError]
Raises(e) == [value |-> None, raised |-> e]

\* send_initial_query without its try/except
send_initial_query_uncaught(resp) ==
    IF resp.http # "ok" THEN Raises(HTTPError)
    ELSE IF resp.state = "SUCCESS" THEN Returns(resp.query_id)
    ELSE Returns(Dict(resp.state, resp.msg))

\* news.py:13-36  how send_initial_query ends for a response of the remote
send_initial_query(resp) ==
    IF resp.http # "ok" THEN Returns(None)      \* raise_for_status, caught at :35
    ELSE IF resp.state = "SUCCESS" THEN Returns(resp.query_id)  \* data.get('query_id')
    ELSE Returns(Dict(resp.state, resp.msg))    \* return data

\* news.py:79-84  the exception _search_chunk raises for a query_id, if any
check_query_id(qid) ==
    IF qid.type # "str"
    THEN IF qid.type = "None" THEN AttributeError      \* None.get
         ELSE IF qid.msg # "" THEN Exception(qid.msg)
         ELSE NoError                  \* a non-empty dict is truthy at :83
    ELSE IF qid.val = "" THEN Exception(FailedToRetrieve)
         ELSE NoError

\* the HTTP status of a response never looked at
raise_for_status_skipped(resp) == NoError

\* news.py:28, 45, 51, 66  response.raise_for_status()
raise_for_status(resp) == IF resp.http # "ok" THEN HTTPError ELSE NoError

\* a poll loop that compares the state with a misspelt constant
is_pending_misspelt(d) == d.state = "pending"

\* a poll loop that also waits on a FAILED state
is_pending_or_failed(d) == d.state \in {"PENDING", "FAILED"}

\* news.py:48  while data.get('state') == 'PENDING'
is_pending(d) == d.state = "PENDING"

\* the poller's result accepted whatever its state
check_result_data_skipped(d) == NoError

\* news.py:87-88  the exception _search_chunk raises for the poller's result
check_result_data(d) == IF d.state # "SUCCESS" THEN RuntimeError(d) ELSE NoError

\* an assignment where the list is to be extended
extend_replaced(acc, arts) == arts

\* news.py:69, 146  list.extend
extend(acc, arts) == acc \o arts

\* the loop condition with <= for <
loop_continues_inclusive(cs, e) == cs <= e

\* news.py:138  while current_start < end_dt
loop_continues(cs, e) == cs < e

\* the count read with a default of one page
get_totalArticles_default_1(d) == IF d.total = NoCount THEN 1 ELSE d.total

\* news.py:90  result_data.get('totalArticles', 0)
get_totalArticles(d) == IF d.total = NoCount THEN 0 ELSE d.total

\* the loop condition with <= for <
more_pages_inclusive(p, total) == (p - 1) * ARTICLES_PER_PAGE <= total

\* news.py:63  the loop condition of fetch_all_articles
more_pages(p, total) == (p - 1) * ARTICLES_PER_PAGE < total

Reverse(s) == [i \in 1..Len(s) |-> s[Len(s) + 1 - i]]

\* insertion of a into the ascending list s, after the elements equal to it
RECURSIVE InsertAfter(_, _)
InsertAfter(s, a) ==
    IF s = <<>> THEN <<a>>
    ELSE IF get_score(s[Len(s)]) <= get_score(a) THEN Append(s, a)
    ELSE Append(InsertAfter(SubSeq(s, 1, Len(s) - 1), a), s[Len(s)])

RECURSIVE SortAscending(_)
SortAscending(s) ==
    IF s = <<>> THEN <<>>
    ELSE InsertAfter(SortAscending(SubSeq(s, 1, Len(s) - 1)), s[Len(s)])

\* a descending sort that reverses the order of equal scores
sort_by_score_unstable(s) == Reverse(SortAscending(s))

\* news.py:149  list.sort(key=score, reverse=True): the list is reversed,
\* sorted ascending by a stable insertion sort, and reversed again
sort_by_score(s) == Reverse(SortAscending(Reverse(s)))

\* the filter with >= for >
filter_by_score_inclusive(s) ==
    SelectSeq(s, LAMBDA item : get_score(item) >= FilterThreshold)

\* news.py:153
filter_by_score(s) == SelectSeq(s, LAMBDA item : get_score(item) > FilterThreshold)

\* the split decision taken at 7 days already
must_split_from_7(dd) == dd >= SplitDays

\* news.py:136  if delta_days > 7
must_split(dd) == dd > SplitDays

\* the chunk end without its truncation to the end of the range
next_end_untruncated(cs, e) == cs + timedelta(ChunkDays)

\* news.py:139-141
next_end(cs, e) == Min(cs + timedelta(ChunkDays), e)


\* ------------------------------------------------------------------ actions
\* news.py:126-144  up to the first call of _search_chunk
Begin ==
    /\ pc = "start"
    /\ LET sd == fromisoformat(start_date)
           ed == fromisoformat(end_date)
           dd == days(ed - sd)
       IN /\ start_dt' = sd /\ end_dt' = ed /\ delta_days' = dd
          /\ IF must_split(dd)
             THEN /\ current_start' = sd
                  /\ current_end' = next_end(sd, ed)
                  /\ chunk_start' = isoformatZ(sd)
                  /\ chunk_end' = isoformatZ(next_end(sd, ed))
             ELSE /\ UNCHANGED <<current_start, current_end>>
                  /\ chunk_start' = start_date
                  /\ chunk_end' = end_date
    /\ pc' = "submit"
    /\ UNCHANGED <<inputs, all_articles, chunkv, data, result, error, hist, log>>

\* _search_chunk has raised e: news() propagates it
Raise(e) ==
    /\ pc' = "failed"
    /\ error' = e
    /\ UNCHANGED <<loopv, result>>

\* news.py:145-153  _search_chunk has returned arts.  all_articles is left
\* as it is before the filter of :153, whose outcome is result.
ChunkReturns(arts) ==
    IF must_split(delta_days)
    THEN LET acc == extend(all_articles, arts) IN
         IF loop_continues(current_end, end_dt)
         THEN /\ all_articles' = acc
              /\ current_start' = current_end
              /\ current_end' = next_end(current_end, end_dt)
              /\ chunk_start' = isoformatZ(current_end)
              /\ chunk_end' = isoformatZ(next_end(current_end, end_dt))
              /\ pc' = "submit"
              /\ UNCHANGED <<result, error>>
         ELSE /\ all_articles' = sort_by_score(acc)
              /\ current_start' = current_end
              /\ result' = filter_by_score(sort_by_score(acc))
              /\ pc' = "done"
              /\ UNCHANGED <<current_end, chunk_start, chunk_end, error>>
    ELSE /\ all_articles' = arts
         /\ result' = filter_by_score(arts)
         /\ pc' = "done"
         /\ UNCHANGED <<current_start, current_end, chunk_start, chunk_end, error>>

\* news.py:77-84  send_initial_query and the checks of its return value
Submit ==
    /\ pc = "submit"
    /\ log' = <<Req("submit", None, 0, toggle_state, chunk_start, chunk_end)>>
    /\ submitted' = Append(submitted, Req("submit", None, 0, toggle_state, chunk_start, chunk_end))
    /\ \E resp \in SubmitResponses(Len(submitted) + 1) :
         LET ret == send_initial_query(resp)
             e == IF ret.raised # NoError THEN ret.raised
                  ELSE check_query_id(ret.value)
         IN /\ data' = resp
            /\ query_id' = ret.value
            /\ IF e # NoError
               THEN Raise(e)
               ELSE /\ pc' = "poll"
                    /\ UNCHANGED <<loopv, result, error>>
    /\ total_results' = 0 /\ page' = 1 /\ articles' = <<>>
    /\ UNCHANGED <<inputs, parsed, received>>

\* news.py:38-53 and 86-94  one status fetch of poll_for_results; when the
\* state is not PENDING, the checks of _search_chunk up to fetch_all_articles
Poll ==
    /\ pc = "poll"
    /\ log' = Append(log, Req("status", query_id, 0, "", NoDate, NoDate))
    /\ \E resp \in StatusResponses :
         /\ is_pending(resp) => Len(SelectSeq(log, is_sleep)) < MaxPending
         /\ data' = resp
         /\ IF raise_for_status(resp) # NoError
            THEN Raise(raise_for_status(resp)) /\ UNCHANGED <<total_results, page, articles>>
            ELSE IF is_pending(resp)
            THEN /\ pc' = "sleep"
                 /\ UNCHANGED <<loopv, result, error, total_results, page, articles>>
            ELSE IF check_result_data(resp) # NoError
            THEN Raise(check_result_data(resp)) /\ UNCHANGED <<total_results, page, articles>>
            ELSE LET total == get_totalArticles(resp) IN
                 /\ total_results' = total
                 /\ IF total = 0
                    THEN ChunkReturns(<<>>) /\ UNCHANGED <<page, articles>>
                    ELSE /\ page' = 1
                         /\ articles' = <<>>
                         /\ IF more_pages(1, total)
                            THEN /\ pc' = "page"
                                 /\ UNCHANGED <<loopv, result, error>>
                            ELSE ChunkReturns(<<>>)
    /\ UNCHANGED <<inputs, parsed, query_id, hist>>

\* news.py:49  time.sleep(poll_interval)
Sleep ==
    /\ pc = "sleep"
    /\ log' = Append(log, Req("sleep", query_id, 0, "", NoDate, NoDate))
    /\ pc' = "poll"
    /\ UNCHANGED <<inputs, parsed, loopv, chunkv, data, result, error, hist>>

\* the 'articles' a page response can carry: none when the request failed
PageBodies(resp) ==
    IF resp = PageOK
    THEN SeqsUpTo(ArticleBodies, Min(MaxPageLen, MaxArticles - Len(received)))
    ELSE {<<>>}

\* news.py:63-71  one iteration of the loop of fetch_all_articles
FetchPage ==
    /\ pc = "page"
    /\ log' = Append(log, Req("page", query_id, page, DefaultToggle, NoDate, NoDate))
    /\ \E resp \in {HTTPFailure, PageOK} :
       \E bodies \in PageBodies(resp) :
            \* data.get('articles', []), each object given its identity
            LET got == [i \in 1..Len(bodies) |->
                           Article(bodies[i].has, bodies[i].score, Len(received) + i)]
                arts == extend(articles, got)
            IN /\ data' = resp
               /\ IF raise_for_status(resp) # NoError
                  THEN Raise(raise_for_status(resp)) /\ UNCHANGED <<page, articles, received>>
                  ELSE /\ articles' = arts
                       /\ received' = received \o got
                       /\ page' = page + 1
                       /\ IF more_pages(page + 1, total_results)
                          THEN /\ pc' = "page"
                               /\ UNCHANGED <<loopv, result, error>>
                          ELSE ChunkReturns(arts)
    /\ UNCHANGED <<inputs, parsed, query_id, total_results, submitted>>

Next == Begin \/ Submit \/ Poll \/ Sleep \/ FetchPage

Spec == Init /\ [][Next]_vars

\* The call runs on: it is one thread, and each of its steps is the answer
\* to a request it has sent or the end of a sleep.  The inputs that no
\* branch of the code reads are fixed.
FairInit ==
    /\ Init
    /\ toggle_state = DefaultToggle /\ threshold = DefaultThreshold
    /\ start_date.z
FairSpec == FairInit /\ [][Next]_vars /\ WF_vars(Next)

\* ================================================================= claims
UidSet(s) == { s[i].uid : i \in 1..Len(s) }
Span(r) == fromisoformat(r.end) - fromisoformat(r.start)
Last(s) == s[Len(s)]
Kinds(k) == SelectSeq(log, LAMBDA r : r.kind = k)
Split == pc # "start" /\ delta_days > 7

\* C1 (as claimed): once news() has returned, on either path, the returned
\* list holds exactly the received articles whose score is strictly greater
\* than the threshold the caller passed.
C1_CallerThreshold ==
    pc = "done" =>
        UidSet(result) = { received[i].uid : i \in { j \in 1..Len(received) :
                                get_score(received[j]) > threshold } }

\* C2: on the split path (delta_days > 7, start < end) the submitted
\* sub-ranges partition [start, end): the first starts at start, each next
\* one starts where the previous one ended, every one but the last is
\* exactly 7 days long, none is longer than 7 days, the last ends at end;
\* a range of N*7 + r whole days (0 < r < 7) gives N+1 sub-ranges, the last
\* of r days.
C2_Partition ==
    (Split /\ start_dt < end_dt) =>
        /\ submitted # <<>> => fromisoformat(submitted[1].start) = start_dt
        /\ \A i \in 1..(Len(submitted) - 1) :
              /\ fromisoformat(submitted[i + 1].start) = fromisoformat(submitted[i].end)
              /\ Span(submitted[i]) = 7 * Day
        /\ \A i \in 1..Len(submitted) : Span(submitted[i]) <= 7 * Day
        /\ pc = "done" =>
              /\ fromisoformat(Last(submitted).end) = end_dt
              /\ LET len == end_dt - start_dt
                     N == (len \div Day) \div 7
                     r == (len \div Day) % 7
                 IN (len % Day = 0 /\ r > 0) =>
                       /\ Len(submitted) = N + 1
                       /\ Span(Last(submitted)) = r * Day

C2_Witness ==
    /\ pc = "done" /\ delta_days > 7
    /\ end_dt - start_dt = 15 * Day
    /\ Len(submitted) = 3

\* ---------------------------------------------------------------- C3
\* The answer received in this step makes the chunk fail, and the error the
\* chunk is to fail with
SubmitTransportFails == pc = "submit" /\ data'.http = "error"
SubmitRejected == pc = "submit" /\ data'.http = "ok" /\ data'.state # "SUCCESS"
StatusTransportFails == pc = "poll" /\ data'.http = "error"
PollNotSuccess ==
    pc = "poll" /\ data'.http = "ok" /\ data'.state \notin {"PENDING", "SUCCESS"}
PageTransportFails == pc = "page" /\ data'.http = "error"

\* C3 (as claimed): on the split path, a chunk whose submission is rejected,
\* one of whose requests fails at transport level, or whose terminal poll
\* state is not SUCCESS makes news() fail at once with that chunk's error
\* and without a result, and nothing is requested after the failure.
C3_ChunkFailureAborts ==
    /\ [][ (delta_days > 7 /\
              (SubmitTransportFails \/ StatusTransportFails \/ PageTransportFails))
              => (pc' = "failed" /\ error' = HTTPError /\ result' = <<>>) ]_vars
    /\ [][ (delta_days > 7 /\ SubmitRejected)
              => (pc' = "failed" /\ error'.type = "Exception" /\ result' = <<>>) ]_vars
    /\ [][ (delta_days > 7 /\ PollNotSuccess)
              => (pc' = "failed" /\ error'.type = "RuntimeError" /\ result' = <<>>) ]_vars
    /\ [][ pc = "failed" => (submitted' = submitted /\ log' = log) ]_vars

\* ---------------------------------------------------------------- C4
\* C4 (as claimed): a transport failure of the submit request leaves
\* send_initial_query as a transport error.
C4_SubmitterRaises ==
    [][ SubmitTransportFails => error' = HTTPError ]_vars

\* C4 (amended): on a transport failure of the submit request
\* send_initial_query catches the error and returns normally, with None; no
\* transport error leaves it.
C4_SubmitterSwallows ==
    [][ SubmitTransportFails => (query_id' = None /\ error' # HTTPError) ]_vars

C4_Witness ==
    /\ data.http = "error" /\ log = <<Last(submitted)>>
    /\ query_id = None /\ pc = "failed" /\ error # HTTPError

\* ---------------------------------------------------------------- C5
\* C5 (as claimed): a submission answered with a state other than SUCCESS
\* makes the chunk fail with an Exception, carrying the payload's message
\* when it has one; no status or page request is sent with the payload as
\* its handle.
C5_RejectedFails ==
    /\ [][ SubmitRejected =>
             /\ pc' = "failed"
             /\ error'.type = "Exception"
             /\ data'.msg # "" => error'.msg = data'.msg ]_vars
    /\ [](\A i \in 1..Len(log) : log[i].handle.type # "dict")

\* ---------------------------------------------------------------- C6
\* C6 (as claimed): when the submitter returns nothing, or a SUCCESS
\* response has a missing or empty query_id, the chunk fails with
\* Exception("Failed to retrieve query ID.") and no status request is sent.
NoHandle ==
    /\ pc = "submit"
    /\ \/ data'.http = "error"
       \/ /\ data'.http = "ok" /\ data'.state = "SUCCESS"
          /\ data'.query_id \in {None, Str("")}

C6_NoHandleFails ==
    [][ NoHandle =>
          /\ pc' = "failed"
          /\ error' = Exception(FailedToRetrieve)
          /\ SelectSeq(log', is_status) = <<>> ]_vars

\* ---------------------------------------------------------------- C7
NonIncreasing(s) ==
    \A i, j \in 1..Len(s) : i < j => get_score(s[i]) >= get_score(s[j])
AboveDefault(a) == get_score(a) > DefaultThreshold

StableDescending(s) ==
    \A i, j \in 1..Len(s) : i < j =>
        \/ get_score(s[i]) > get_score(s[j])
        \/ get_score(s[i]) = get_score(s[j]) /\ s[i].uid < s[j].uid

\* C8: on the split path the sorted list and the returned list are
\* non-increasing in score (no score counting as 0), and articles of equal
\* score keep the order in which they were accumulated.
C8_StableSort ==
    (pc = "done" /\ delta_days > 7) =>
        /\ StableDescending(all_articles)
        /\ StableDescending(result)
        /\ UidSet(all_articles) = UidSet(received)

\* a call of at least two chunks that returned two articles of equal score
C8_Witness ==
    /\ pc = "done" /\ delta_days > 7 /\ Len(submitted) >= 2
    /\ Len(result) = 2 /\ Len(received) = 2
    /\ result[1].score = result[2].score

\* ---------------------------------------------------------------- C9
\* C9 (as claimed): every request that carries a toggle state, the page
\* requests included, carries the one the caller gave.
C9_TogglePassedThrough ==
    \A i \in 1..Len(log) :
        log[i].kind \in {"submit", "page"} => log[i].toggle = toggle_state

\* ---------------------------------------------------------------- C10
ZeroTotal ==
    /\ pc = "poll" /\ data'.http = "ok" /\ data'.state = "SUCCESS"
    /\ data'.total \in {0, NoCount}

\* C10: a chunk whose terminal status reports 0 articles, or no count,
\* sends no page request and adds no article; news() does not fail, and
\* goes on to the next chunk when there is one.
C10_ZeroTotalShortCircuit ==
    [][ ZeroTotal =>
          /\ SelectSeq(log', is_page) = <<>>
          /\ received' = received
          /\ Len(all_articles') = Len(all_articles)
          /\ UidSet(all_articles') = UidSet(all_articles)
          /\ error' = NoError
          /\ pc' = IF delta_days > 7 /\ current_end < end_dt THEN "submit" ELSE "done"
       ]_vars

\* the first chunk reported no count and the second is about to be submitted
C10_Witness ==
    /\ pc = "submit" /\ Len(submitted) = 1
    /\ data.state = "SUCCESS" /\ data.total = NoCount
    /\ query_id.type = "str" /\ SelectSeq(log, is_page) = <<>>
    /\ all_articles = <<>>

\* ---------------------------------------------------------------- C11
\* C11: a chunk whose first status that is not PENDING is not SUCCESS either
\* fails with a RuntimeError that carries that status payload; no page
\* request has been sent for the chunk, and none is sent afterwards.
C11_QueryIncomplete ==
    /\ [][ PollNotSuccess =>
             /\ pc' = "failed"
             /\ error' = Error("RuntimeError", DidNotComplete, data')
             /\ SelectSeq(log', is_page) = <<>> ]_vars
    /\ [][ (pc = "failed" /\ error.type = "RuntimeError") => log' = log ]_vars

\* the first status was PENDING, the second FAILED
C11_Witness ==
    /\ pc = "failed" /\ error.type = "RuntimeError"
    /\ data.state = "FAILED" /\ error.payload = data
    /\ Len(SelectSeq(log, is_status)) = 2 /\ SelectSeq(log, is_page) = <<>>

\* ---------------------------------------------------------------- C12
StatusOK == pc = "poll" /\ data'.http = "ok"

\* C12: every PENDING answer is followed by one sleep and one more status
\* fetch, so that k PENDING answers make k + 1 fetches and k sleeps, each
\* sleep between two fetches; the first answer that is not PENDING is what
\* the poller returns, and no status fetch follows it.
C12_PollerFetches ==
    /\ [][ (StatusOK /\ data'.state = "PENDING") => pc' = "sleep" ]_vars
    /\ [][ pc = "sleep" => (pc' = "poll" /\ data' = data) ]_vars
    /\ [][ (StatusOK /\ data'.state # "PENDING") =>
             /\ pc' \notin {"poll", "sleep"}
             /\ IF error' = NoError
                THEN total_results' = (IF data'.total = NoCount THEN 0 ELSE data'.total)
                ELSE error'.payload = data' ]_vars
    /\ [](LET n == Len(log)
              fetches == Len(SelectSeq(log, is_status))
              naps == Len(SelectSeq(log, is_sleep))
          IN /\ \A i \in 1..n : log[i].kind = "sleep" =>
                    /\ i > 1 /\ log[i - 1].kind = "status"
                    /\ IF i < n THEN log[i + 1].kind = "status" ELSE pc = "poll"
             /\ \A i \in 2..n : log[i].kind = "status" =>
                    log[i - 1].kind \in {"submit", "sleep"}
             /\ \A i \in 2..n : log[i - 1].kind = "page" => log[i].kind = "page"
             /\ fetches = IF pc = "poll" \/ fetches = 0 THEN naps ELSE naps + 1)

\* one PENDING answer: two fetches with a sleep between them, then the pages
C12_Witness ==
    /\ pc = "page"
    /\ [i \in 1..Len(log) |-> log[i].kind] = <<"submit", "status", "sleep", "status">>

\* ---------------------------------------------------------------- C13
PageRequests == SelectSeq(log, is_page)
PagesFor(T) == IF T >= 1 THEN (T + 24) \div 25 ELSE 0
ChunkCompleted == pc = "done" \/ (pc = "submit" /\ log # <<>>)

\* C13: the page requests of a chunk are numbered 1, 2, 3, ... in the order
\* sent; there are never more than ceil(T / 25) of them for a total count T
\* of at least 1 and none for a smaller T; the paginator is still at work
\* while there are fewer, and has sent exactly that many when the chunk
\* completes, whatever the pages held.
C13_Pagination ==
    /\ \A i \in 1..Len(PageRequests) : PageRequests[i].page = i
    /\ Len(PageRequests) <= PagesFor(total_results)
    /\ pc = "page" =>
          /\ Len(PageRequests) < PagesFor(total_results)
          /\ page = Len(PageRequests) + 1
    /\ ChunkCompleted => Len(PageRequests) = PagesFor(total_results)

\* 26 articles announced, two pages fetched, both empty
C13_Witness ==
    /\ pc = "done" /\ total_results = 26
    /\ Len(PageRequests) = 2 /\ received = <<>>

\* ---------------------------------------------------------------- C14
\* C14: for a call with the default threshold, an article whose score is
\* 0.00055 is not returned, one whose score is 0.00056 is, and one without
\* a score is not.
C14_StrictFilter ==
    (pc = "done" /\ threshold = DefaultThreshold) =>
        \A i \in 1..Len(received) :
            LET a == received[i] IN
            /\ (a.has /\ a.score = 55) => a.uid \notin UidSet(result)
            /\ (a.has /\ a.score = 56) => a \in { result[j] : j \in 1..Len(result) }
            /\ ~a.has => a.uid \notin UidSet(result)

\* an article at the threshold and one just above it: only the second is
\* returned
C14_Witness ==
    /\ pc = "done" /\ threshold = DefaultThreshold
    /\ Len(received) = 2 /\ received[1].has /\ received[1].score = 55
    /\ result = <<received[2]>> /\ received[2].score = 56

\* ---------------------------------------------------------------- C15
Polling == pc \in {"poll", "sleep"}
ErrorTypes == {"none", "HTTPError", "AttributeError", "Exception", "RuntimeError"}

\* C15: the poll loop ends when, and only when, a status fetch fails or is
\* answered with a state other than PENDING.  A remote that leaves PENDING
\* (here after at most MaxPending such answers to a chunk) makes the poller
\* return; a PENDING answer, however many came before it, keeps the call in
\* the loop and raises nothing, and no error of news() is a timeout.
C15_PollTermination ==
    /\ (pc = "poll") ~> ~Polling
    /\ [][ (Polling /\ ~Polling') =>
             (data'.http = "error" \/ data'.state # "PENDING") ]_vars
    /\ [][ (StatusOK /\ data'.state = "PENDING") =>
             (pc' = "sleep" /\ error' = NoError /\ result' = result) ]_vars
    /\ [](error.type \in ErrorTypes)

\* the poller has returned a SUCCESS status after MaxPending PENDING answers
C15_Witness ==
    /\ pc = "page" /\ data.state = "SUCCESS"
    /\ Len(SelectSeq(log, is_sleep)) = MaxPending
    /\ Len(SelectSeq(log, is_status)) = MaxPending + 1

\* ---------------------------------------------------------------- C16
\* C16 (as claimed): the requests of a chunk are its submission, then its
\* status fetches, then its page fetches; a chunk is submitted only when
\* the last request of the chunk before it has been answered; and every
\* status or page request carries the handle the remote returned to the
\* submission of the same chunk, never that of an earlier chunk.
C16_SequentialCorrelated ==
    /\ [][ submitted' # submitted =>
             (pc = "submit" /\ data.http \in {"none", "ok"}) ]_vars
    /\ [](/\ \A i \in 1..Len(log) :
                (log[i].kind = "submit") <=> (i = 1)
          /\ log # <<>> => log[1] = Last(submitted)
          /\ \A i \in 2..Len(log) : log[i - 1].kind = "page" => log[i].kind = "page"
          /\ \A i \in 2..Len(log) :
                /\ log[i].handle = Str(Handles[Len(submitted)])
                /\ \A k \in 1..(Len(submitted) - 1) : log[i].handle # Str(Handles[k]))

\* ---------------------------------------------------------------- C17
\* C17: a status fetch or a page fetch that fails at transport level ends
\* the call at once with the HTTPError and without a result, whatever has
\* been accumulated; no request follows it.
C17_NoRetry ==
    /\ [][ (StatusTransportFails \/ PageTransportFails) =>
             (pc' = "failed" /\ error' = HTTPError /\ result' = <<>>) ]_vars
    /\ [][ (pc = "failed" /\ error = HTTPError) =>
             (log' = log /\ submitted' = submitted /\ result' = result) ]_vars
    /\ []((pc = "failed" /\ error = HTTPError) =>
             (result = <<>> /\ data.http = "error" /\ Last(log).kind \in {"status", "page"}))

\* the second page of the second chunk failed, one article in hand from the
\* first chunk and one from the first page
C17_Witness ==
    /\ pc = "failed" /\ error = HTTPError /\ result = <<>>
    /\ Len(submitted) = 2 /\ Len(all_articles) = 1 /\ Len(articles) = 1
    /\ Len(PageRequests) = 2

\* ---------------------------------------------------------------- C18
\* C18: while the chunks are fetched, the articles in hand are the articles
\* received, in the order received; the list returned holds each received
\* article whose score is above the threshold (0.00055) once, and nothing
\* else, two articles of the same content being two articles; on the
\* single-chunk path it holds them in the order received.
C18_MergeExact ==
    /\ pc \in {"poll", "sleep", "page"} =>
          (IF delta_days > 7 THEN all_articles ELSE <<>>) \o articles = received
    /\ pc = "done" =>
          LET kept == SelectSeq(received, AboveDefault) IN
          /\ Len(result) = Len(kept)
          /\ Cardinality(UidSet(result)) = Len(result)
          /\ UidSet(result) = UidSet(kept)
          /\ \A i \in 1..Len(result) :
                /\ result[i].uid \in 1..Len(received)
                /\ result[i] = received[result[i].uid]
          /\ delta_days <= 7 => result = kept

\* three chunks, the same article content received twice and returned twice
C18_Witness ==
    /\ pc = "done" /\ Len(submitted) = 3
    /\ Len(result) = 2 /\ Len(received) = 2
    /\ received[1].has /\ received[1].score = received[2].score
    /\ received[1].has = received[2].has

\* ---------------------------------------------------------------- C19
\* C19 (as claimed): for a range with start <= end, no submission covers
\* more than 7 days.
C19_AtMostSevenDays ==
    (pc # "start" /\ start_dt <= end_dt) =>
        \A i \in 1..Len(submitted) : Span(submitted[i]) <= 7 * Day

\* ---------------------------------------------------------------- C20
ChunksFor(len) == (len + 7 * Day - 1) \div (7 * Day)

\* C20: on the split path every submitted sub-range has its start before
\* its end, the cursor only ever moves forward, there are never more than
\* ceil((end - start) / 7 days) submissions, the loop ends, and when it
\* ends with every chunk done the cursor is at the end of the range and
\* the submissions are exactly that many.
C20_ChunkLoop ==
    /\ [](Split => \A i \in 1..Len(submitted) : Span(submitted[i]) > 0)
    /\ [](Split => Len(submitted) <= ChunksFor(end_dt - start_dt))
    /\ [][ (Split /\ current_start' # current_start) =>
             (current_start < current_start' /\ current_start' <= end_dt) ]_vars
    /\ []((Split /\ pc = "done") =>
             /\ current_start = end_dt
             /\ Len(submitted) = ChunksFor(end_dt - start_dt))
    /\ Split ~> (pc \in {"done", "failed"})

\* a range of exactly 14 days, done in two chunks
C20_Witness ==
    /\ pc = "done" /\ end_dt - start_dt = 14 * Day
    /\ Len(submitted) = 2 /\ current_start = end_dt

====
